---- MODULE Spec2Model ----
(***************************************************************************)
(* Model of the response-extraction / table-reference-normalization        *)
(* pipeline of sql-sage-py (llm_integration.py, api_routes.py,             *)
(* query_generation.py, query_generator.py), of the refinement, of the     *)
(* database endpoints of api_routes.py and of the application as uvicorn   *)
(* serves it (main.py).                                                    *)
(*                                                                         *)
(* Text is a sequence of characters.  A character is written as a TLA+     *)
(* string; a multi-letter string ("FROM", "int", "<fence>", "<think>")     *)
(* ("<fence>" being the three backquotes that open or close a code block)  *)
(* stands                                                                  *)
(* for that run of letters, which no other characters of the alphabet can  *)
(* spell, so that the regular expressions of the source match it as a      *)
(* whole or not at all.                                                    *)
(***************************************************************************)
EXTENDS Integers, Sequences, FiniteSets, TLC

VARIABLES
    pc,        \* position of the modelled call
    database,  \* database_name argument of formatQueryWithDatabasePrefix
    query,     \* query argument of formatQueryWithDatabasePrefix
    qIn,       \* how the query text was put together (input bookkeeping)
    out1,      \* formatQueryWithDatabasePrefix(query, database)
    out2,      \* formatQueryWithDatabasePrefix(out1, database)
    response,  \* response_text argument of extract_sql_from_response
    rIn,       \* how the response text was put together (input bookkeeping)
    resApi,    \* result of api_routes.extract_sql_from_response
    resLlm,    \* result of llm_integration.extract_sql_from_response
    resQg,     \* result of query_generation.extract_sql_from_response
    reply,     \* what query_ollama returned to generate_query
    genRes,    \* outcome of api_routes.generate_query
    genCalls,  \* the calls api_routes.generate_query made, in order
    qgenRes,   \* outcome of query_generator.generate_query
    http,      \* how the model service answered the POST of query_ollama
    refined,   \* outcome of refine_sql_with_feedback(query, error_msg)
    endpoint,  \* the database endpoint that was called
    config,    \* its ConnectionConfig (databaseInfo of the execute request)
    server,    \* how the SQL Server answers the endpoint (environment)
    calls,     \* the pyodbc and refinement calls the endpoint made, in order
    epRes,     \* outcome of the database endpoint
    maxRows,   \* maxRows of the execute request (max_rows of the function)
    rows,      \* the rows the statement yields at the server (environment)
    tables,    \* tables argument of generate_example_queries
    joins,     \* the join columns generate_example_queries chose
    reqs,      \* the requests in flight at the served application
    loop       \* the request whose handler holds the event-loop thread

vars == <<pc, database, query, qIn, out1, out2, response, rIn,
          resApi, resLlm, resQg, reply, genRes, genCalls, qgenRes,
          http, refined, endpoint, config, server, calls, epRes,
          maxRows, rows, tables, joins, reqs, loop>>

normVars == <<database, query, qIn, out1, out2>>
extractVars == <<response, rIn, resApi, resLlm, resQg>>
genVars == <<reply, genRes, genCalls, qgenRes>>
refineVars == <<http, refined>>
dbVars == <<endpoint, config, server, calls, epRes, maxRows, rows,
           tables, joins>>
serveVars == <<reqs, loop>>

(***************************************************************************)
(* Bounds of the enumerated inputs.                                        *)
(***************************************************************************)
MaxParts == 3   \* dot-separated parts of a generated table reference
MaxWs == 2      \* blanks between the keyword and the reference
MaxBlocks == 2  \* fenced SQL blocks of a generated response
MaxRequests == 3  \* requests sent to the served application
MaxResultRows == 3  \* rows a statement yields at the server
MaxColumns == 2  \* columns of a table handed to generate_example_queries

(***************************************************************************)
(* Characters and Python string helpers.                                   *)
(***************************************************************************)
None == <<"<None>">>

Truthy(x) == x # None /\ x # <<>>

\* the variables of the operations a specification does not exercise
NoNorm ==
    /\ database = None /\ query = None /\ qIn = None
    /\ out1 = None /\ out2 = None

NoExtract ==
    /\ response = None /\ rIn = None
    /\ resApi = None /\ resLlm = None /\ resQg = None

NoGen == reply = None /\ genRes = None /\ genCalls = None /\ qgenRes = None

NoRefine == http = None /\ refined = None

NoDb ==
    /\ endpoint = None /\ config = None /\ server = None
    /\ calls = None /\ epRes = None /\ maxRows = None /\ rows = None
    /\ tables = None /\ joins = None

NoServe == reqs = None /\ loop = None

IsSpace(c) == c \in {" ", "\n"}

\* \w : letters, digits, underscore
IsWord(c) == c \in {"FROM", "from", "JOIN", "join", "SELECT", "select", "sql",
                    "dbo", "int", "INT", "varchar", "VARCHAR", "s", "t", "u", "D", "Pr", "B",
                    "I", "1", "2", "3", "4"}

\* the first, the last letter of the run is a \w character
BeginsWord(c) ==
    \/ IsWord(c)
    \/ c \in {"Your SQL Query will be like", "cannot generate",
              "not related to", "outside the scope"}

EndsWord(c) == BeginsWord(c)

\* (FROM|JOIN) under re.IGNORECASE
IsClauseKeyword(c) == c \in {"FROM", "from", "JOIN", "join"}

\* a run of letters that spells one of the names in sql_data_types
IsTypeName(c) == c \in {"int", "INT", "varchar", "VARCHAR"}

\* number of letters a character stands for
CharLen(c) ==
    CASE c \in {"FROM", "from", "JOIN", "join"} -> 4
      [] c \in {"SELECT", "select"} -> 6
      [] c \in {"sql", "dbo", "int", "INT", "<fence>"} -> 3
      [] c \in {"varchar", "VARCHAR"} -> 7
      [] c = "<think>" -> 7
      [] c = "</think>" -> 8
      [] c = "Pr" -> 2
      [] c = "cannot generate" -> 15
      [] c = "Your SQL Query will be like" -> 27
      [] OTHER -> 1

RECURSIVE StrLen(_)
StrLen(s) == IF s = <<>> THEN 0 ELSE CharLen(Head(s)) + StrLen(Tail(s))

\* s[i:] and s[i:j] with 1-based inclusive start, exclusive end
From(s, i) == SubSeq(s, i, Len(s))
Slice(s, i, j) == SubSeq(s, i, j - 1)

\* first index k >= i with ~P(s[k]), or Len(s)+1
RECURSIVE SkipSpaces(_, _)
SkipSpaces(s, i) ==
    IF i <= Len(s) /\ IsSpace(s[i]) THEN SkipSpaces(s, i + 1) ELSE i

\* \b before position i, where s[i] is a word character
WordBoundaryBefore(s, i) == i = 1 \/ ~EndsWord(s[i - 1])

\* \b after position i, where s[i] is a word character
WordBoundaryAfter(s, i) == i = Len(s) \/ ~BeginsWord(s[i + 1])

(***************************************************************************)
(* llm_integration.formatQueryWithDatabasePrefix                           *)
(***************************************************************************)
\* [^\s\[\].,)]
IsQualifierChar(c) == ~IsSpace(c) /\ c \notin {"[", "]", ".", ",", ")"}

\* [^\s\[\].,);]
IsTableChar(c) == IsQualifierChar(c) /\ c # ";"

RECURSIVE QualifierRunEnd(_, _)
QualifierRunEnd(s, i) ==
    IF i <= Len(s) /\ IsQualifierChar(s[i]) THEN QualifierRunEnd(s, i + 1) ELSE i

RECURSIVE TableRunEnd(_, _)
TableRunEnd(s, i) ==
    IF i <= Len(s) /\ IsTableChar(s[i]) THEN TableRunEnd(s, i + 1) ELSE i

NoMatch == [ok |-> FALSE, part |-> None, next |-> 0]

\* (?:\[?([^\s\[\].,)]+)\]?\.) tried at position i
QualifierGroup(s, i) ==
    LET b == IF i <= Len(s) /\ s[i] = "[" THEN i + 1 ELSE i
        e == QualifierRunEnd(s, b)
        r == IF e <= Len(s) /\ s[e] = "]" THEN e + 1 ELSE e
    IN  IF e > b /\ r <= Len(s) /\ s[r] = "."
        THEN [ok |-> TRUE, part |-> Slice(s, b, e), next |-> r + 1]
        ELSE NoMatch

\* the table group without its optional opening bracket
TableGroupNoBracket(s, i) ==
    LET e == TableRunEnd(s, i)
        r == IF e <= Len(s) /\ s[e] = "]" THEN e + 1 ELSE e
    IN  IF e > i
        THEN [ok |-> TRUE, part |-> Slice(s, i, e), next |-> r]
        ELSE NoMatch

\* (?:\[?([^\s\[\].,);]+)\]?) tried at position i
TableGroup(s, i) ==
    LET b == IF i <= Len(s) /\ s[i] = "[" THEN i + 1 ELSE i
        e == TableRunEnd(s, b)
        r == IF e <= Len(s) /\ s[e] = "]" THEN e + 1 ELSE e
    IN  IF e > b
        THEN [ok |-> TRUE, part |-> Slice(s, b, e), next |-> r]
        ELSE NoMatch

NoRef == [ok |-> FALSE, clause |-> "", first |-> None, second |-> None,
          third |-> None, next |-> 0]

\* table_pattern tried at position i: the groups of the first match the
\* backtracking matcher finds (both qualifiers, then one, then none)
TablePatternAt(s, i) ==
    IF ~(i <= Len(s) /\ IsClauseKeyword(s[i]) /\ WordBoundaryBefore(s, i))
    THEN NoRef
    ELSE
    LET j  == SkipSpaces(s, i + 1)
        g2 == QualifierGroup(s, j)
        g3 == IF g2.ok THEN QualifierGroup(s, g2.next) ELSE NoMatch
        t3 == IF g3.ok THEN TableGroup(s, g3.next) ELSE NoMatch
        t2 == IF g2.ok THEN TableGroup(s, g2.next) ELSE NoMatch
        t1 == TableGroup(s, j)
    IN  IF j = i + 1 THEN NoRef
        ELSE IF t3.ok
        THEN [ok |-> TRUE, clause |-> s[i], first |-> g2.part,
              second |-> g3.part, third |-> t3.part, next |-> t3.next]
        ELSE IF t2.ok
        THEN [ok |-> TRUE, clause |-> s[i], first |-> g2.part,
              second |-> None, third |-> t2.part, next |-> t2.next]
        ELSE IF t1.ok
        THEN [ok |-> TRUE, clause |-> s[i], first |-> None,
              second |-> None, third |-> t1.part, next |-> t1.next]
        ELSE NoRef

\* sql_data_types without its first alternative, int
ContainsDataTypeButInt(part) ==
    \E k \in 1..Len(part) : IsTypeName(part[k]) /\ part[k] # "int"

\* re.search(sql_data_types, part, re.IGNORECASE)
ContainsDataType(part) == \E k \in 1..Len(part) : IsTypeName(part[k])

MaxIdentifierLen == 128

\* the part holds a blank, a comma or a parenthesis, or len(part) > 128
IsInvalidPart(part) ==
    \/ \E k \in 1..Len(part) : IsSpace(part[k]) \/ part[k] \in {",", "(", ")"}
    \/ StrLen(part) > MaxIdentifierLen

DefaultSchema == <<"dbo">>

\* f"{clause} [{database_name}].[{schema}].[{table}]"
ThreePartName(clause, db, schema, table) ==
    <<clause, " ", "[">> \o db \o <<"]", ".", "[">> \o schema
        \o <<"]", ".", "[">> \o table \o <<"]">>

\* a replacement that writes the keyword of the clause in capitals
ReplaceTableRefUpper(m, db) ==
    ThreePartName(IF m.clause \in {"FROM", "from"} THEN "FROM" ELSE "JOIN",
                  db, DefaultSchema, m.third)

\* replace_table_ref(match)
ReplaceTableRef(m, db) ==
    LET contains_data_type ==
            \/ Truthy(m.first) /\ ContainsDataType(m.first)
            \/ Truthy(m.second) /\ ContainsDataType(m.second)
        is_valid_schema ==
            ~ \/ Truthy(m.first) /\ IsInvalidPart(m.first)
              \/ Truthy(m.second) /\ IsInvalidPart(m.second)
    IN  IF contains_data_type \/ ~is_valid_schema
        THEN ThreePartName(m.clause, db, DefaultSchema, m.third)
        ELSE IF Truthy(m.first) /\ Truthy(m.second) /\ Truthy(m.third)
        THEN ThreePartName(m.clause, db, m.second, m.third)
        ELSE IF Truthy(m.second) /\ Truthy(m.third)
        THEN ThreePartName(m.clause, db, m.second, m.third)
        ELSE IF Truthy(m.first) /\ Truthy(m.third)
        THEN ThreePartName(m.clause, db, DefaultSchema, m.third)
        ELSE ThreePartName(m.clause, db, DefaultSchema, m.third)

\* re.sub(table_pattern, replace_table_ref, query, flags=re.IGNORECASE)
RECURSIVE SubTablePattern(_, _, _)
SubTablePattern(s, i, db) ==
    IF i > Len(s) THEN <<>>
    ELSE LET m == TablePatternAt(s, i)
         IN  IF m.ok
             THEN ReplaceTableRef(m, db) \o SubTablePattern(s, m.next, db)
             ELSE <<s[i]>> \o SubTablePattern(s, i + 1, db)

formatQueryWithDatabasePrefix(q, db) ==
    IF ~Truthy(q) \/ ~Truthy(db) THEN q ELSE SubTablePattern(q, 1, db)

(***************************************************************************)
(* Inputs of the normalizer: <pre> KEYWORD <blanks> <reference> <post>.    *)
(***************************************************************************)
\* "D", "Print" and "D B"
Databases == {<<"D">>, <<"Pr", "int">>, <<"D", " ", "B">>}

Keywords == {"FROM", "join"}

\* "s", "t", the type names "int" and "VARCHAR", and "Print", which only
\* contains one
Identifiers == {<<"s">>, <<"t">>, <<"int">>, <<"VARCHAR">>, <<"Pr", "int">>}

BracketStyles == {"plain", "bracketed", "open", "close"}

Prefixes == {<<>>, <<"u">>, <<"u", " ">>}

Suffixes == {<<>>, <<";">>, <<",", " ", "u">>, <<" ", "JOIN", " ", "u">>}

Blanks == {<<" ">>, <<"\n">>} \cup
          {[k \in 1..n |-> " "] : n \in 2..MaxWs}

RefShapes == UNION {[1..n -> Identifiers] : n \in 1..MaxParts}

WritePart(id, style) ==
    CASE style = "plain" -> id
      [] style = "bracketed" -> <<"[">> \o id \o <<"]">>
      [] style = "open" -> <<"[">> \o id
      [] style = "close" -> id \o <<"]">>

RECURSIVE WriteRef(_, _)
WriteRef(parts, style) ==
    IF Len(parts) = 1 THEN WritePart(parts[1], style)
    ELSE WritePart(Head(parts), style) \o <<".">> \o WriteRef(Tail(parts), style)

WriteQuery(in) ==
    in.pre \o <<in.kw>> \o in.ws \o WriteRef(in.parts, in.style) \o in.post

NormInputs ==
    [pre : Prefixes, kw : Keywords, ws : Blanks, parts : RefShapes,
     style : BracketStyles, post : Suffixes]

InitNorm ==
    /\ pc = "query"
    /\ database \in Databases
    /\ qIn \in NormInputs
    /\ query = WriteQuery(qIn)
    /\ out1 = None
    /\ out2 = None
    /\ NoExtract /\ NoGen /\ NoRefine /\ NoDb /\ NoServe

\* normalize(q, db)
Normalize ==
    /\ pc = "query"
    /\ out1' = formatQueryWithDatabasePrefix(query, database)
    /\ pc' = "normalized"
    /\ UNCHANGED <<database, query, qIn, out2, extractVars, genVars,
                   refineVars, dbVars, serveVars>>

\* normalize(normalize(q, db), db)
NormalizeAgain ==
    /\ pc = "normalized"
    /\ out2' = formatQueryWithDatabasePrefix(out1, database)
    /\ pc' = "renormalized"
    /\ UNCHANGED <<database, query, qIn, out1, extractVars, genVars,
                   refineVars, dbVars, serveVars>>

NextNorm == Normalize \/ NormalizeAgain

SpecNorm == InitNorm /\ [][NextNorm]_vars

(***************************************************************************)
(* Inputs of the normalizer with a derived table:                          *)
(*   <pre> KEYWORD <blanks> ( <gap> <subquery> ) u                         *)
(***************************************************************************)
Subqueries ==
    {<<"SELECT", " ", "1">>, <<"SELECT", " ", "1", " ", "FROM", " ", "t">>}

DerivedInputs ==
    [pre : Prefixes, kw : Keywords, ws : Blanks, gap : {<<>>, <<" ">>},
     inner : Subqueries]

WriteDerived(in) ==
    in.pre \o <<in.kw>> \o in.ws \o <<"(">> \o in.gap \o in.inner
        \o <<")", " ", "u">>

InitDerived ==
    /\ pc = "query"
    /\ database \in Databases
    /\ qIn \in DerivedInputs
    /\ query = WriteDerived(qIn)
    /\ out1 = None
    /\ out2 = None
    /\ NoExtract /\ NoGen /\ NoRefine /\ NoDb /\ NoServe

SpecDerived == InitDerived /\ [][NextNorm]_vars

(***************************************************************************)
(* extract_sql_from_response: the three variants.                          *)
(***************************************************************************)
Fence == "<fence>"

IsSelect(c) == c \in {"SELECT", "select"}

\* first index k >= i with s[k] = c, or 0
RECURSIVE IndexOf(_, _, _)
IndexOf(s, c, i) ==
    IF i > Len(s) THEN 0
    ELSE IF s[i] = c THEN i ELSE IndexOf(s, c, i + 1)

\* str.strip()
RECURSIVE LStrip(_)
LStrip(s) == IF s # <<>> /\ IsSpace(Head(s)) THEN LStrip(Tail(s)) ELSE s

RECURSIVE RStrip(_)
RStrip(s) ==
    IF s # <<>> /\ IsSpace(s[Len(s)]) THEN RStrip(SubSeq(s, 1, Len(s) - 1))
    ELSE s

Strip(s) == RStrip(LStrip(s))

\* first index k >= i where the fence and "sql" open a block, or 0
RECURSIVE OpenerFrom(_, _)
OpenerFrom(s, i) ==
    IF i >= Len(s) THEN 0
    ELSE IF s[i] = Fence /\ s[i + 1] = "sql" THEN i ELSE OpenerFrom(s, i + 1)

\* the groups of re.findall(r"```sql\s*(.*?)\s*```", s, flags=re.DOTALL),
\* scanning from position i
RECURSIVE FencedBlocks(_, _)
FencedBlocks(s, i) ==
    LET p == OpenerFrom(s, i)
        q == IF p = 0 THEN 0 ELSE IndexOf(s, Fence, p + 2)
        g == SkipSpaces(s, p + 2)
    IN  IF p = 0 \/ q = 0 THEN <<>>
        ELSE <<RStrip(Slice(s, g, q))>> \o FencedBlocks(s, q + 1)

\* api_routes.extract_sql_from_response
api_extract_sql_from_response(response_text) ==
    LET ti == IndexOf(response_text, "<think>", 1)
        tj == IF ti = 0 THEN 0 ELSE IndexOf(response_text, "</think>", ti + 1)
        think_match == tj # 0
        think_text == IF think_match
                      THEN Strip(Slice(response_text, ti + 1, tj))
                      ELSE None
        post_think_text == IF think_match THEN From(response_text, tj + 1)
                           ELSE response_text
        sql_matches == FencedBlocks(post_think_text, 1)
    IN  [query |-> IF sql_matches # <<>>
                   THEN Strip(sql_matches[Len(sql_matches)]) ELSE None,
         think |-> think_text]

\* str.split("\n")
RECURSIVE SplitLines(_)
SplitLines(s) ==
    LET n == IndexOf(s, "\n", 1)
    IN  IF n = 0 THEN <<s>>
        ELSE <<Slice(s, 1, n)>> \o SplitLines(From(s, n + 1))

\* re.search(r"\bSELECT\b", text, re.IGNORECASE)
MentionsSelect(s) ==
    \E i \in 1..Len(s) :
        /\ IsSelect(s[i])
        /\ WordBoundaryBefore(s, i)
        /\ WordBoundaryAfter(s, i)

\* re.match(r"\bSELECT\b", line, re.IGNORECASE)
StartsWithSelect(line) ==
    /\ line # <<>>
    /\ IsSelect(line[1])
    /\ WordBoundaryAfter(line, 1)

\* the sql_lines the loop over the lines collects, from line k on
RECURSIVE CollectSqlLines(_, _, _)
CollectSqlLines(lines, k, in_query) ==
    IF k > Len(lines) THEN <<>>
    ELSE LET line == Strip(lines[k])
             inq  == in_query \/ StartsWithSelect(line)
         IN  IF ~inq THEN CollectSqlLines(lines, k + 1, FALSE)
             ELSE IF \E n \in 1..Len(line) : line[n] = ";" THEN <<line>>
             ELSE <<line>> \o CollectSqlLines(lines, k + 1, TRUE)

\* " ".join(lines)
RECURSIVE JoinLines(_)
JoinLines(ls) ==
    IF ls = <<>> THEN <<>>
    ELSE IF Len(ls) = 1 THEN ls[1]
    ELSE ls[1] \o <<" ">> \o JoinLines(Tail(ls))

\* llm_integration.extract_sql_from_response
llm_extract_sql_from_response(response_text) ==
    LET blocks == FencedBlocks(response_text, 1)
        fenced == IF blocks = <<>> THEN <<>> ELSE Strip(blocks[1])
        sql_lines == CollectSqlLines(SplitLines(response_text), 1, FALSE)
        joined == Strip(JoinLines(sql_lines))
        bare == IF joined # <<>> /\ joined[Len(joined)] = ";"
                THEN SubSeq(joined, 1, Len(joined) - 1) ELSE joined
    IN  IF response_text = <<>>
        THEN [query |-> None, reason |-> <<"Empty response from model">>]
        ELSE IF fenced # <<>>
        THEN [query |-> fenced, reason |-> None]
        ELSE IF MentionsSelect(response_text) /\ sql_lines # <<>>
        THEN [query |-> bare, reason |-> None]
        ELSE [query |-> None,
              reason |-> <<"No SQL query found in the response">>]

QuotedLead == <<"Your SQL Query will be like", " ", "\"">>

\* first index k >= i where the sentence and a quote open a quoted query
RECURSIVE QuotedFrom(_, _)
QuotedFrom(s, i) ==
    IF i + 2 > Len(s) THEN 0
    ELSE IF SubSeq(s, i, i + 2) = QuotedLead THEN i
    ELSE QuotedFrom(s, i + 1)

\* an extractor that looks at the fenced blocks before the quoted sentence
qg_extract_blocks_first(response_text) ==
    LET m == QuotedFrom(response_text, 1)
        e == IF m = 0 THEN 0 ELSE IndexOf(response_text, "\"", m + 3)
        sql_matches == FencedBlocks(response_text, 1)
        query_ == IF sql_matches # <<>>
                  THEN Strip(sql_matches[Len(sql_matches)]) ELSE None
    IN  IF Truthy(query_)
        THEN [query |-> query_, reason |-> None]
        ELSE IF e # 0
        THEN [query |-> Strip(Slice(response_text, m + 3, e)), reason |-> None]
        ELSE [query |-> None,
              reason |-> <<"No SQL query found in the model's response.">>]

\* query_generation.extract_sql_from_response
qg_extract_sql_from_response(response_text) ==
    LET m == QuotedFrom(response_text, 1)
        e == IF m = 0 THEN 0 ELSE IndexOf(response_text, "\"", m + 3)
        sql_matches == FencedBlocks(response_text, 1)
        query_ == IF sql_matches # <<>>
                  THEN Strip(sql_matches[Len(sql_matches)]) ELSE None
    IN  IF e # 0
        THEN [query |-> Strip(Slice(response_text, m + 3, e)), reason |-> None]
        ELSE IF Truthy(query_)
        THEN [query |-> query_, reason |-> None]
        ELSE [query |-> None,
              reason |-> <<"No SQL query found in the model's response.">>]

(***************************************************************************)
(* Inputs of the extractor:                                                *)
(*   <refusal> <think wrapper> <fenced blocks> <tail>                      *)
(***************************************************************************)
Refusals == {<<>>, <<"I", " ", "cannot generate", "\n">>}

WriteBlock(c) == <<Fence, "sql", "\n">> \o c \o <<"\n", Fence>>

ThinkContents ==
    {<<"s">>, <<"\n", "SELECT", " ", "2", "\n">>,
     WriteBlock(<<"SELECT", " ", "2">>)}

BlockContents == {<<"SELECT", " ", "1">>, <<"select", " ", "3">>, <<>>}

BlockLists == UNION {[1..n -> BlockContents] : n \in 0..MaxBlocks}

Tails ==
    {<<>>,
     <<"\n", "select", " ", "4", ";", " ", "s">>,
     <<"\n">> \o QuotedLead \o <<"SELECT", " ", "4", "\"">>}

RECURSIVE WriteBlocks(_)
WriteBlocks(bs) ==
    IF bs = <<>> THEN <<>>
    ELSE WriteBlock(Head(bs)) \o <<"\n">> \o WriteBlocks(Tail(bs))

WriteThink(w) ==
    IF w = None THEN <<>> ELSE <<"<think>">> \o w \o <<"</think>", "\n">>

WriteResponse(in) ==
    in.refusal \o WriteThink(in.think) \o WriteBlocks(in.blocks) \o in.tail

ResponseInputs ==
    [refusal : Refusals, think : {None} \cup ThinkContents,
     blocks : BlockLists, tail : Tails]

InitExtract ==
    /\ pc = "response"
    /\ rIn \in ResponseInputs
    /\ response = WriteResponse(rIn)
    /\ resApi = None /\ resLlm = None /\ resQg = None
    /\ NoNorm /\ NoGen /\ NoRefine /\ NoDb /\ NoServe

\* extract(responseText), by each variant
Extract ==
    /\ pc = "response"
    /\ resApi' = api_extract_sql_from_response(response)
    /\ resLlm' = llm_extract_sql_from_response(response)
    /\ resQg' = qg_extract_sql_from_response(response)
    /\ pc' = "extracted"
    /\ UNCHANGED <<response, rIn, normVars, genVars, refineVars, dbVars,
                   serveVars>>

NextExtract == Extract

SpecExtract == InitExtract /\ [][NextExtract]_vars

(***************************************************************************)
(* api_routes.formatQueryWithDatabasePrefix and api_routes.generate_query  *)
(***************************************************************************)
RECURSIVE WordRunEnd(_, _)
WordRunEnd(s, i) ==
    IF i <= Len(s) /\ IsWord(s[i]) THEN WordRunEnd(s, i + 1) ELSE i

\* the lookahead \[?[\w]+\]?\.\[?[\w]+\]?\.\[? matches at position j
ThreePartAhead(s, j) ==
    LET b1 == IF j <= Len(s) /\ s[j] = "[" THEN j + 1 ELSE j
        e1 == WordRunEnd(s, b1)
        r1 == IF e1 <= Len(s) /\ s[e1] = "]" THEN e1 + 1 ELSE e1
        b2 == IF r1 + 1 <= Len(s) /\ s[r1 + 1] = "[" THEN r1 + 2 ELSE r1 + 1
        e2 == WordRunEnd(s, b2)
        r2 == IF e2 <= Len(s) /\ s[e2] = "]" THEN e2 + 1 ELSE e2
    IN  /\ e1 > b1
        /\ r1 <= Len(s) /\ s[r1] = "."
        /\ e2 > b2
        /\ r2 <= Len(s) /\ s[r2] = "."

\* [\w\[\]]
IsWordOrBracket(c) == IsWord(c) \/ c \in {"[", "]"}

RECURSIVE WordOrBracketRunEnd(_, _)
WordOrBracketRunEnd(s, i) ==
    IF i <= Len(s) /\ IsWordOrBracket(s[i])
    THEN WordOrBracketRunEnd(s, i + 1) ELSE i

\* str.strip('[]')
RECURSIVE StripBrackets(_)
StripBrackets(s) ==
    IF s # <<>> /\ Head(s) \in {"[", "]"} THEN StripBrackets(Tail(s))
    ELSE IF s # <<>> /\ s[Len(s)] \in {"[", "]"}
    THEN StripBrackets(SubSeq(s, 1, Len(s) - 1))
    ELSE s

NoTable == [ok |-> FALSE, clause |-> "", table |-> None, next |-> 0]

\* table_regex tried at position i
TableRegexAt(s, i) ==
    IF ~(i <= Len(s) /\ IsClauseKeyword(s[i]) /\ WordBoundaryBefore(s, i))
    THEN NoTable
    ELSE
    LET j == SkipSpaces(s, i + 1)
        e == WordOrBracketRunEnd(s, j)
    IN  IF j = i + 1 \/ ThreePartAhead(s, j) \/ e = j THEN NoTable
        ELSE [ok |-> TRUE, clause |-> s[i],
              table |-> StripBrackets(Slice(s, j, e)), next |-> e]

\* re.sub(table_regex, replace_table_ref, query, flags=re.IGNORECASE)
RECURSIVE SubTableRegex(_, _, _)
SubTableRegex(s, i, db) ==
    IF i > Len(s) THEN <<>>
    ELSE LET m == TableRegexAt(s, i)
         IN  IF m.ok
             THEN ThreePartName(m.clause, db, DefaultSchema, m.table)
                      \o SubTableRegex(s, m.next, db)
             ELSE <<s[i]>> \o SubTableRegex(s, i + 1, db)

api_formatQueryWithDatabasePrefix(q, databaseName) ==
    IF ~Truthy(databaseName) THEN q ELSE SubTableRegex(q, 1, databaseName)

\* isNonSqlResponse(question): the placeholder returns False
isNonSqlResponse(question) == FALSE

\* HTTPException(status_code, detail) raised inside the try block is caught
\* by "except Exception" and raised again with status 500
Raised(status_code, detail) ==
    [status |-> 500, query |-> None, detail |-> detail, raised |-> status_code]

\* the body of generate_query once query_ollama has returned response_text
GenerateOutcome(question, response_text, database_name) ==
    LET extracted == api_extract_sql_from_response(response_text).query
    IN  IF isNonSqlResponse(question)
        THEN Raised(400, "This appears to be a general knowledge question not related to database content.")
        ELSE IF ~Truthy(response_text)
        THEN Raised(500, "Failed to get a response from the model.")
        ELSE IF ~Truthy(extracted)
        THEN Raised(400, "No SQL query found in the model's response.")
        ELSE [status |-> 200,
              query |-> api_formatQueryWithDatabasePrefix(extracted,
                                                          database_name),
              detail |-> "", raised |-> 0]

\* a handler that hands an empty or absent reply on to the extractor
GenerateCallsUnguarded(question, response_text) ==
    <<"isNonSqlResponse", "query_ollama", "extract_sql_from_response">>

\* the calls generate_query makes, in order, once query_ollama has returned
\* response_text
GenerateCalls(question, response_text) ==
    LET extracted == api_extract_sql_from_response(response_text).query
    IN  <<"isNonSqlResponse">> \o
        IF isNonSqlResponse(question) THEN <<>>
        ELSE <<"query_ollama">> \o
             IF ~Truthy(response_text) THEN <<>>
             ELSE <<"extract_sql_from_response">> \o
                  IF ~Truthy(extracted) THEN <<>>
                  ELSE <<"formatQueryWithDatabasePrefix">>

\* query_generator.generate_query, which extracts and normalizes with the
\* functions of llm_integration
QueryGeneratorOutcome(question, response_text, database_name) ==
    LET extracted == llm_extract_sql_from_response(response_text).query
    IN  IF isNonSqlResponse(question)
        THEN Raised(400, "This appears to be a general knowledge question not related to database content.")
        ELSE IF ~Truthy(response_text)
        THEN Raised(500, "Failed to get a response from the model.")
        ELSE IF ~Truthy(extracted)
        THEN Raised(400, "No SQL query found in the model's response.")
        ELSE [status |-> 200,
              query |-> formatQueryWithDatabasePrefix(extracted,
                                                      database_name),
              detail |-> "", raised |-> 0]

\* what the model can answer: no answer (query_ollama returns None), an
\* empty text, a text without SQL, or the query in a fenced block, alone
\* or after a think wrapper
ModelReplies(q) ==
    {None, <<>>, <<"s">>, WriteBlock(q),
     <<"<think>", "s", "</think>", "\n">> \o WriteBlock(q)}

Questions == {"total number of records in Customers"}

\* databaseInfo.connectionConfig.database of a request: a name, or the
\* empty default of a request without one, or an explicit null
RequestDatabases == Databases \cup {<<>>, None}

InitGen ==
    /\ pc = "request"
    /\ database \in RequestDatabases
    /\ qIn \in {in \in NormInputs : in.style \in {"plain", "bracketed"}}
    /\ query = WriteQuery(qIn)
    /\ out1 = None /\ out2 = None
    /\ NoExtract /\ NoGen /\ NoRefine /\ NoDb /\ NoServe

\* POST /api/sql/generate; the model is about to write `query`
GenerateQuery ==
    /\ pc = "request"
    /\ \E question \in Questions, r \in ModelReplies(query) :
        /\ reply' = r
        /\ genRes' = GenerateOutcome(question, r, database)
        /\ genCalls' = GenerateCalls(question, r)
    /\ pc' = "responded"
    /\ UNCHANGED qgenRes
    /\ UNCHANGED <<normVars, extractVars, refineVars, dbVars, serveVars>>

NextGen == GenerateQuery

SpecGen == InitGen /\ [][NextGen]_vars

\* the requests put to query_generator.generate_query
QgenQueries ==
    {in \in NormInputs :
        in.style \in {"plain", "bracketed"} /\ in.pre = <<>>
        /\ in.ws = <<" ">>}

InitQgen ==
    /\ pc = "qg-request"
    /\ database \in RequestDatabases
    /\ qIn \in QgenQueries
    /\ query = WriteQuery(qIn)
    /\ out1 = None /\ out2 = None
    /\ NoExtract /\ NoGen /\ NoRefine /\ NoDb /\ NoServe

\* query_generator.generate_query(request); the query_ollama of
\* llm_integration returns "" when the model service fails, never None
QueryGeneratorGenerate ==
    /\ pc = "qg-request"
    /\ \E question \in Questions, r \in ModelReplies(query) \ {None} :
        /\ reply' = r
        /\ qgenRes' = QueryGeneratorOutcome(question, r, database)
    /\ pc' = "qg-responded"
    /\ UNCHANGED <<genRes, genCalls>>
    /\ UNCHANGED <<normVars, extractVars, refineVars, dbVars, serveVars>>

NextQgen == QueryGeneratorGenerate

SpecQgen == InitQgen /\ [][NextQgen]_vars

(***************************************************************************)
(* api_routes.query_ollama and api_routes.refine_sql_with_feedback          *)
(***************************************************************************)
\* query_ollama(prompt), given how the model service answers the POST:
\* a RequestException gives None, otherwise the stripped "response" text
query_ollama(h) == IF ~h.ok THEN None ELSE Strip(h.text)

\* re.search(pattern, None) raises TypeError
ExtractRaises(response_text) == response_text = None

Returned(value) == [raised |-> "", value |-> value]

Thrown(exception) == [raised |-> exception, value |-> None]

\* a refinement that hands back whatever the extractor found
refine_returns_extracted(sql, error_msg, h) ==
    LET refined_sql_response == query_ollama(h)
    IN  IF ExtractRaises(refined_sql_response) THEN Thrown("TypeError")
        ELSE Returned(api_extract_sql_from_response(refined_sql_response).query)

\* refine_sql_with_feedback(sql, error_msg), the model service answering h
\* to the corrective prompt
refine_sql_with_feedback(sql, error_msg, h) ==
    LET refined_sql_response == query_ollama(h)
        refined_sql ==
            api_extract_sql_from_response(refined_sql_response).query
    IN  IF ExtractRaises(refined_sql_response) THEN Thrown("TypeError")
        ELSE Returned(IF Truthy(refined_sql) THEN refined_sql ELSE sql)

\* the answers of the model service to a corrective prompt: no answer, or
\* a text of one of several kinds (c is the query a correcting model writes)
Corrections ==
    {<<"SELECT", " ", "1">>, <<"select", " ", "3">>,
     <<"SELECT", " ", "1", " ", "FROM", " ", "t">>}

ThinkOf(w) == <<"<think>">> \o w \o <<"</think>", "\n">>

ServiceAnswers ==
    {[ok |-> FALSE, kind |-> "error", text |-> None]}
    \cup {[ok |-> TRUE, kind |-> "empty", text |-> <<>>],
          [ok |-> TRUE, kind |-> "blank", text |-> <<" ", "\n">>],
          [ok |-> TRUE, kind |-> "prose", text |-> <<"s", "\n">>],
          [ok |-> TRUE, kind |-> "emptyblock", text |-> WriteBlock(<<>>)],
          [ok |-> TRUE, kind |-> "thinkonly", text |-> ThinkOf(<<"s">>)]}
    \cup {[ok |-> TRUE, kind |-> "sqlinthink", text |-> ThinkOf(WriteBlock(c))]
          : c \in Corrections}
    \cup {[ok |-> TRUE, kind |-> "sql", text |-> <<"\n">> \o WriteBlock(c)]
          : c \in Corrections}
    \cup {[ok |-> TRUE, kind |-> "thinksql",
           text |-> ThinkOf(<<"s">>) \o WriteBlock(c) \o <<"\n">>]
          : c \in Corrections}

\* the kinds of answer that are a text holding no extractable SQL
NoSqlKinds ==
    {"empty", "blank", "prose", "emptyblock", "thinkonly", "sqlinthink"}

ErrorMessages == {"Invalid object name 't'."}

\* the failed queries handed to the refinement
FailedQueries ==
    {in \in NormInputs :
        in.style = "plain" /\ in.pre = <<>> /\ in.ws = <<" ">>}

InitRefine ==
    /\ pc = "failed"
    /\ qIn \in FailedQueries
    /\ query = WriteQuery(qIn)
    /\ database \in Databases
    /\ out1 = None /\ out2 = None
    /\ NoExtract /\ NoGen /\ NoRefine /\ NoDb /\ NoServe

\* refine(query, errorMessage)
Refine ==
    /\ pc = "failed"
    /\ \E error_msg \in ErrorMessages, h \in ServiceAnswers :
        /\ http' = h
        /\ refined' = refine_sql_with_feedback(query, error_msg, h)
    /\ pc' = "refined"
    /\ UNCHANGED <<normVars, extractVars, genVars, dbVars, serveVars>>

NextRefine == Refine

SpecRefine == InitRefine /\ [][NextRefine]_vars

(***************************************************************************)
(* The database endpoints of api_routes: connect, parse, execute and        *)
(* terminate.                                                              *)
(***************************************************************************)
MAX_RETRIES == 3

Call(fn, arg) == [fn |-> fn, arg |-> arg]

\* the connection string handed to pyodbc.connect
ConnStr(trusted, db, uid, pwd) ==
    [trusted |-> trusted, database |-> db, uid |-> uid, pwd |-> pwd]

\* any exception inside the try block ends in HTTPException(500, str(e))
EndpointError(cause, detail) ==
    [status |-> 500, cause |-> cause, detail |-> detail, body |-> None]

EndpointOk(body) ==
    [status |-> 200, cause |-> "", detail |-> "", body |-> body]

ClosingCursorOnly == <<Call("cursor.close", None)>>

\* the finally block closes the cursor and the connection that exist
Closing == <<Call("cursor.close", None), Call("cnxn.close", None)>>

\* connect, cursor.execute and the finally block of an endpoint, once its
\* connection string is built; srv is how the SQL Server answers
OnConnection(conn_str, srv, needs_rows, body) ==
    LET connect == <<Call("pyodbc.connect", conn_str)>>
        execute == <<Call("cursor.execute", None)>>
    IN  IF srv = "refuses"
        THEN [calls |-> connect,
              res |-> EndpointError("pyodbc.Error", "connection failed")]
        ELSE IF srv = "rejects"
        THEN [calls |-> connect \o execute \o Closing,
              res |-> EndpointError("pyodbc.Error", "statement failed")]
        ELSE IF srv = "empty" /\ needs_rows
        THEN [calls |-> connect \o execute \o Closing,
              res |-> EndpointError("UnboundLocalError", "db_name")]
        ELSE [calls |-> connect \o execute \o Closing,
              res |-> EndpointOk(body)]

\* POST /api/sql/connect
connect_and_list_databases(cfg, srv) ==
    IF cfg.useWindowsAuth
    THEN OnConnection(ConnStr(TRUE, None, None, None), srv, FALSE,
                      "databases")
    ELSE IF ~Truthy(cfg.username) \/ ~Truthy(cfg.password)
    THEN [calls |-> <<>>,
          res |-> EndpointError("HTTPException(400)",
                     "Missing username/password for SQL authentication.")]
    ELSE OnConnection(ConnStr(FALSE, None, cfg.username, cfg.password),
                      srv, FALSE, "databases")

\* POST /api/sql/parse
parse_database_schema(cfg, srv) ==
    IF cfg.useWindowsAuth
    THEN OnConnection(ConnStr(TRUE, cfg.database, None, None), srv, TRUE,
                      "schema")
    ELSE OnConnection(ConnStr(FALSE, cfg.database, cfg.username,
                              cfg.password), srv, TRUE, "schema")

\* request.databaseInfo is declared dict: it has items, not attributes
HasAttributes(databaseInfo) == FALSE

Min(a, b) == IF a <= b THEN a ELSE b

\* the names of cursor.description, the same for every statement here
Columns == <<"id", "name">>

\* cursor.fetchmany(size): the next size rows, or all that are left
fetchmany(result_set, size) ==
    SubSeq(result_set, 1, Min(Len(result_set), size))

\* dict(zip(columns, row)): a later column of the same name wins
dict_zip(columns, row) ==
    LET n == Min(Len(columns), Len(row))
    IN  [k \in {columns[i] : i \in 1..n} |->
            row[CHOOSE i \in 1..n :
                    /\ columns[i] = k
                    /\ \A j \in 1..n : columns[j] = k => j <= i]]

\* [dict(zip(columns, row)) for row in cursor.fetchmany(max_rows)]
FetchResults(result_set, max_rows) ==
    LET fetched == fetchmany(result_set, max_rows)
    IN  [i \in DOMAIN fetched |-> dict_zip(Columns, fetched[i])]

\* what the statement yields: nothing when the server answers "empty"
ResultSet(srv, result_set) == IF srv = "empty" THEN <<>> ELSE result_set

\* the statement ran but has no result set (an UPDATE, say):
\* cursor.description is None and iterating it raises TypeError;
\* or the fetch itself fails at the driver
FetchFailure(conn_str, srv) ==
    [calls |-> <<Call("pyodbc.connect", conn_str),
                 Call("cursor.execute", None)>> \o Closing,
     res |-> IF srv = "noresult"
             THEN EndpointError("TypeError",
                                "'NoneType' object is not iterable")
             ELSE EndpointError("pyodbc.Error", "fetch failed")]

\* connect, execute, fetch and close of execute_query
ExecuteOn(conn_str, srv, result_set, max_rows) ==
    IF srv \in {"noresult", "fetchfails"}
    THEN FetchFailure(conn_str, srv)
    ELSE OnConnection(conn_str, srv, FALSE,
            [results |-> FetchResults(ResultSet(srv, result_set), max_rows)])

\* POST /api/sql/execute
execute_query(databaseInfo, max_rows, srv, result_set) ==
    IF ~HasAttributes(databaseInfo)
    THEN [calls |-> <<>>,
          res |-> EndpointError("AttributeError",
                     "'dict' object has no attribute 'server'")]
    ELSE IF databaseInfo.useWindowsAuth
    THEN ExecuteOn(ConnStr(TRUE, databaseInfo.database, None, None),
                   srv, result_set, max_rows)
    ELSE IF ~Truthy(databaseInfo.username) \/ ~Truthy(databaseInfo.password)
    THEN [calls |-> <<>>,
          res |-> EndpointError("HTTPException(400)",
                     "Missing username or password in databaseInfo.")]
    ELSE ExecuteOn(ConnStr(FALSE, databaseInfo.database,
                           databaseInfo.username, databaseInfo.password),
                   srv, result_set, max_rows)

\* database.execute_sql_query: the exception is logged and raised again,
\* the finally block closes the cursor and the connection that exist
execute_sql_query(database_, use_windows_auth, username, password, max_rows, srv, result_set) ==
    LET connection_string ==
            IF use_windows_auth
            THEN ConnStr(TRUE, database_, None, None)
            ELSE ConnStr(FALSE, database_, username, password)
        connect == <<Call("pyodbc.connect", connection_string)>>
        cursor == <<Call("cnxn.cursor", None)>>
        execute == <<Call("cursor.execute", None)>>
        fetch == <<Call("cursor.fetchmany", max_rows)>>
    IN  IF srv = "refuses"
        THEN [calls |-> connect, res |-> Thrown("pyodbc.Error")]
        ELSE IF srv = "rejects"
        THEN [calls |-> connect \o cursor \o execute \o Closing,
              res |-> Thrown("pyodbc.Error")]
        ELSE IF srv = "noresult"
        THEN [calls |-> connect \o cursor \o execute \o Closing,
              res |-> Thrown("TypeError")]
        ELSE IF srv = "fetchfails"
        THEN [calls |-> connect \o cursor \o execute \o fetch \o Closing,
              res |-> Thrown("pyodbc.Error")]
        ELSE [calls |-> connect \o cursor \o execute \o fetch \o Closing,
              res |-> Returned(FetchResults(ResultSet(srv, result_set),
                                            max_rows))]

\* POST /api/sql/terminate
terminate_session(cfg, srv) ==
    IF cfg.useWindowsAuth
    THEN OnConnection(ConnStr(TRUE, <<"master">>, None, None), srv, FALSE,
                      "message")
    ELSE OnConnection(ConnStr(FALSE, <<"master">>, cfg.username,
                              cfg.password), srv, FALSE, "message")

\* the requests: a ConnectionConfig whose optional fields may be absent
\* (None) or empty
Configs ==
    [server : {<<"srv">>}, database : {None, <<"D">>},
     useWindowsAuth : BOOLEAN,
     username : {None, <<>>, <<"sa">>}, password : {None, <<>>, <<"pw">>}]

ServerAnswers == {"refuses", "rejects", "empty", "answers"}

\* a statement of the caller may also have no result set, or fail to fetch
ExecuteAnswers == ServerAnswers \cup {"noresult", "fetchfails"}

MaxRowsValues == {1, 2, 200}

\* the result sets: 1..MaxResultRows rows of (id, name)
ResultSets ==
    {[i \in 1..n |-> <<i, <<"Pr">>>>] : n \in 1..MaxResultRows}

InitDb ==
    /\ pc = "config"
    /\ config \in Configs
    /\ maxRows \in MaxRowsValues
    /\ rows \in ResultSets
    /\ endpoint = None /\ server = None /\ calls = None /\ epRes = None
    /\ tables = None /\ joins = None
    /\ NoNorm /\ NoExtract /\ NoGen /\ NoRefine /\ NoServe

Serve(name, outcome) ==
    /\ endpoint' = name
    /\ calls' = outcome.calls
    /\ epRes' = outcome.res
    /\ pc' = "served"
    /\ UNCHANGED <<config, maxRows, rows, tables, joins, normVars,
                   extractVars, genVars, refineVars, serveVars>>

ConnectAndListDatabases ==
    /\ pc = "config"
    /\ \E srv \in ServerAnswers :
        server' = srv /\ Serve("connect", connect_and_list_databases(config, srv))

ParseDatabaseSchema ==
    /\ pc = "config"
    /\ \E srv \in ServerAnswers :
        server' = srv /\ Serve("parse", parse_database_schema(config, srv))

ExecuteQuery ==
    /\ pc = "config"
    /\ \E srv \in ExecuteAnswers :
        /\ server' = srv
        /\ Serve("execute", execute_query(config, maxRows, srv, rows))

\* a call of database.execute_sql_query with the fields of the configuration
ExecuteSqlQuery ==
    /\ pc = "config"
    /\ \E srv \in ExecuteAnswers :
        /\ server' = srv
        /\ Serve("execute_sql_query",
                 execute_sql_query(config.database, config.useWindowsAuth,
                                   config.username, config.password,
                                   maxRows, srv, rows))

TerminateSession ==
    /\ pc = "config"
    /\ \E srv \in ServerAnswers :
        server' = srv /\ Serve("terminate", terminate_session(config, srv))

NextDb ==
    \/ ConnectAndListDatabases
    \/ ParseDatabaseSchema
    \/ ExecuteQuery
    \/ ExecuteSqlQuery
    \/ TerminateSession

SpecDb == InitDb /\ [][NextDb]_vars

(***************************************************************************)
(* The served application: uvicorn.run(app) runs one event loop on one     *)
(* thread, and every endpoint is an "async def" whose body holds no await: *)
(* a handler that has started keeps the thread until it returns or raises, *)
(* the time it spends inside requests.post included.                       *)
(***************************************************************************)
Requests == 1..MaxRequests

RequestKinds == {"generate", "execute"}

\* where a request is: not sent yet, accepted and waiting for the event
\* loop, inside the POST to the model service, answered
Sent(kind) == [kind |-> kind, at |-> "client", status |-> 0]

\* no handler holds the thread of the event loop
Idle == 0

ServedDatabase == <<"D">>

ServedQuestion == "total number of records in Customers"

InitServe ==
    /\ pc = "serving"
    /\ reqs \in [Requests -> {Sent(k) : k \in RequestKinds}]
    /\ loop = Idle
    /\ NoNorm /\ NoExtract /\ NoGen /\ NoRefine /\ NoDb

ServeUnchanged ==
    UNCHANGED <<pc, normVars, extractVars, genVars, refineVars, dbVars>>

\* the client sends request r; the server accepts it and queues its handler
Arrive(r) ==
    /\ reqs[r].at = "client"
    /\ reqs' = [reqs EXCEPT ![r].at = "queued"]
    /\ UNCHANGED loop
    /\ ServeUnchanged

\* the event loop starts generate_query for r, which runs on the loop's
\* thread up to requests.post(OLLAMA_URL, json=payload) and waits in it
StartGenerate(r) ==
    /\ loop = Idle
    /\ reqs[r].at = "queued" /\ reqs[r].kind = "generate"
    /\ ~isNonSqlResponse(ServedQuestion)
    /\ reqs' = [reqs EXCEPT ![r].at = "posting"]
    /\ loop' = r
    /\ ServeUnchanged

\* the model service answers the POST (or the connection fails at once):
\* query_ollama returns and generate_query runs to its end
ModelServiceAnswers(r) ==
    /\ reqs[r].at = "posting"
    /\ \E h \in ServiceAnswers :
        reqs' = [reqs EXCEPT
                   ![r].at = "done",
                   ![r].status = GenerateOutcome(ServedQuestion,
                                     query_ollama(h), ServedDatabase).status]
    /\ loop' = Idle
    /\ ServeUnchanged

\* the event loop runs execute_query for r, which raises before it
\* connects and so returns without waiting
RunExecute(r) ==
    /\ loop = Idle
    /\ reqs[r].at = "queued" /\ reqs[r].kind = "execute"
    /\ reqs' = [reqs EXCEPT
                  ![r].at = "done",
                  ![r].status = execute_query(None, 200, "answers", <<>>).res.status]
    /\ UNCHANGED loop
    /\ ServeUnchanged

NextServe ==
    \E r \in Requests :
        \/ Arrive(r)
        \/ StartGenerate(r)
        \/ ModelServiceAnswers(r)
        \/ RunExecute(r)

SpecServe == InitServe /\ [][NextServe]_vars

\* the event loop runs every handler that is ready; nothing obliges a
\* client to send or the model service to answer
SpecServeFair ==
    /\ SpecServe
    /\ \A r \in Requests :
          WF_vars(StartGenerate(r)) /\ WF_vars(RunExecute(r))

(***************************************************************************)
(* The join example of generate_example_queries, which the three schema    *)
(* parsers build from the first two tables.  A column name is a sequence   *)
(* of letters, so that lower() and the substring tests act on it.          *)
(***************************************************************************)
\* str.lower, letter by letter
LowerLetter(c) ==
    CASE c = "N" -> "n"
      [] c = "I" -> "i"
      [] c = "D" -> "d"
      [] OTHER -> c

lower(name) == [k \in DOMAIN name |-> LowerLetter(name[k])]

\* sub in text
IsSubstring(sub, text) ==
    \E p \in 1..(Len(text) - Len(sub) + 1) :
        SubSeq(text, p, p + Len(sub) - 1) = sub

\* "id" in col.lower() or "key" in col.lower()
LooksLikeId(name) ==
    \/ IsSubstring(<<"i", "d">>, lower(name))
    \/ IsSubstring(<<"k", "e", "y">>, lower(name))

Lowest(S) == CHOOSE x \in S : \A y \in S : x <= y

Highest(S) == CHOOSE x \in S : \A y \in S : y <= x

\* the name of the first column that passes, None when no column does
FirstPrimaryKey(columns) ==
    LET found == {i \in DOMAIN columns : columns[i].isPrimaryKey}
    IN  IF found = {} THEN None ELSE columns[Lowest(found)].name

FirstIdColumn(columns) ==
    LET found == {i \in DOMAIN columns : LooksLikeId(columns[i].name)}
    IN  IF found = {} THEN None ELSE columns[Lowest(found)].name

FirstColumn(columns) ==
    IF columns = <<>> THEN None ELSE columns[1].name

\* a or b of Python: a when it is truthy
OrElse(a, b) == IF Truthy(a) THEN a ELSE b

JoinOn(col1, col2) == [col1 |-> col1, col2 |-> col2]

\* database.generate_example_queries: the nested loops leave the inner one
\* at the first match, but the outer one goes on, so the last column of
\* table1 that has a namesake wins; primary keys are not looked at; the
\* example is left out when a table has no column
database_join_columns(table1, table2) ==
    LET table1_cols == table1.columns
        table2_cols == table2.columns
        Namesakes(i) == {j \in DOMAIN table2_cols :
                            lower(table1_cols[i].name)
                              = lower(table2_cols[j].name)}
        matched == {i \in DOMAIN table1_cols : Namesakes(i) # {}}
    IN  IF matched # {}
        THEN JoinOn(table1_cols[Highest(matched)].name,
                    table2_cols[Lowest(Namesakes(Highest(matched)))].name)
        ELSE JoinOn(OrElse(FirstIdColumn(table1_cols),
                           FirstColumn(table1_cols)),
                    OrElse(FirstIdColumn(table2_cols),
                           FirstColumn(table2_cols)))

\* db_operations.generate_example_queries: each side on its own, primary
\* key, then id or key, then first column, then "ID"; common names are not
\* looked at
OneSide(columns) ==
    OrElse(OrElse(OrElse(FirstPrimaryKey(columns), FirstIdColumn(columns)),
                  FirstColumn(columns)),
           <<"I", "D">>)

db_operations_join_columns(table1, table2) ==
    JoinOn(OneSide(table1.columns), OneSide(table2.columns))

\* api_routes.generate_example_queries: ON t1.ID = t2.ID, whatever the
\* columns are
api_routes_join_columns(table1, table2) == JoinOn(<<"I", "D">>, <<"I", "D">>)

ColumnNames == {<<"n">>, <<"N">>, <<"c">>, <<"b">>, <<"I", "D">>}

ColumnValues == [name : ColumnNames, isPrimaryKey : BOOLEAN]

\* a table has 1..MaxColumns columns, no two of the same name in any case
TableValues ==
    {t \in [columns : UNION {[1..n -> ColumnValues] : n \in 1..MaxColumns}] :
        \A i, j \in DOMAIN t.columns :
            lower(t.columns[i].name) = lower(t.columns[j].name) => i = j}

InitExamples ==
    /\ pc = "tables"
    /\ tables \in [1..2 -> TableValues]
    /\ joins = None
    /\ endpoint = None /\ config = None /\ server = None
    /\ calls = None /\ epRes = None /\ maxRows = None /\ rows = None
    /\ NoNorm /\ NoExtract /\ NoGen /\ NoRefine /\ NoServe

Examples(variant, chosen) ==
    /\ pc = "tables"
    /\ pc' = "examples"
    /\ endpoint' = variant
    /\ joins' = chosen
    /\ UNCHANGED <<config, server, calls, epRes, maxRows, rows, tables,
                   normVars, extractVars, genVars, refineVars, serveVars>>

DatabaseExamples ==
    Examples("database", database_join_columns(tables[1], tables[2]))

DbOperationsExamples ==
    Examples("db_operations",
             db_operations_join_columns(tables[1], tables[2]))

ApiRoutesExamples ==
    Examples("api_routes", api_routes_join_columns(tables[1], tables[2]))

NextExamples ==
    \/ DatabaseExamples
    \/ DbOperationsExamples
    \/ ApiRoutesExamples

SpecExamples == InitExamples /\ [][NextExamples]_vars

Init ==
    \/ InitNorm \/ InitExtract \/ InitGen \/ InitQgen \/ InitRefine \/ InitDb
    \/ InitServe \/ InitDerived \/ InitExamples

Next ==
    \/ NextNorm \/ NextExtract \/ NextGen \/ NextQgen \/ NextRefine \/ NextDb
    \/ NextServe \/ NextExamples

Spec == Init /\ [][Next]_vars

(***************************************************************************)
(* Properties of the normalizer.                                           *)
(***************************************************************************)
Last(s) == s[Len(s)]

StartsWithAt(s, p, x) ==
    Len(s) >= p + Len(x) - 1 /\ SubSeq(s, p, p + Len(x) - 1) = x

\* the text [db].[schema].[table]
FullName(db, schema, table) ==
    <<"[">> \o db \o <<"]", ".", "[">> \o schema \o <<"]", ".", "[">>
        \o table \o <<"]">>

\* the generated keyword opens a FROM/JOIN clause (it is a word of its own)
IsClause == qIn.pre = <<>> \/ ~IsWord(Last(qIn.pre))

\* every part of the generated reference is a name or a [name]
WellBracketed == qIn.style \in {"plain", "bracketed"}

\* the identifier is exactly one of the SQL type names
IsSqlType(id) == Len(id) = 1 /\ IsTypeName(id[1])

\* the output reads <pre> KEYWORD blank <name> and the suffix follows it
RefRewrittenTo(o, name) ==
    LET head == qIn.pre \o <<qIn.kw, " ">> \o name
    IN  /\ StartsWithAt(o, 1, head)
        /\ IF qIn.post = <<>> THEN Len(o) = Len(head)
           ELSE Len(o) > Len(head) /\ o[Len(head) + 1] = qIn.post[1]

IsNameChar(c) ==
    ~IsSpace(c) /\ c \notin {"[", "]", ".", ",", "(", ")", ";"}

RECURSIVE NameRunEnd(_, _)
NameRunEnd(s, i) ==
    IF i <= Len(s) /\ IsNameChar(s[i]) THEN NameRunEnd(s, i + 1) ELSE i

\* position p of o starts a reference [database].[schema].[table] that
\* ends where the reference ends
QualifiedAt(o, p) ==
    LET dbq == <<"[">> \o database \o <<"]", ".", "[">>
        s1  == p + Len(dbq)
        e1  == NameRunEnd(o, s1)
        s2  == e1 + 3
        e2  == NameRunEnd(o, s2)
    IN  /\ StartsWithAt(o, p, dbq)
        /\ e1 > s1
        /\ StartsWithAt(o, e1, <<"]", ".", "[">>)
        /\ e2 > s2
        /\ StartsWithAt(o, e2, <<"]">>)
        /\ (e2 = Len(o) \/ IsSpace(o[e2 + 1]) \/ o[e2 + 1] \in {",", ")", ";"})

\* the positions of o at which the target of a FROM/JOIN clause starts
ClauseTargets(o) ==
    {p \in 1..Len(o) :
        \E i \in 1..Len(o) :
            /\ IsClauseKeyword(o[i]) /\ WordBoundaryBefore(o, i)
            /\ i < Len(o) /\ IsSpace(o[i + 1])
            /\ p = SkipSpaces(o, i + 1)}

\* the positions of o at which a further table of a comma-separated
\* FROM list starts
ListedTargets(o) ==
    {p \in 1..Len(o) :
        \E t \in ClauseTargets(o), c \in 1..Len(o) :
            /\ t < c /\ o[c] = ","
            /\ \A k \in t..(c - 1) : ~IsSpace(o[k]) /\ o[k] # ","
            /\ p = SkipSpaces(o, c + 1)}

\* C1: normalization is idempotent: normalize(normalize(q, db), db) equals
\* normalize(q, db) for every query q and every non-empty database name db.
C1_Idempotent == pc = "renormalized" => out2 = out1

\* C2: in the output of the normalizer every table that is the target of a
\* FROM or JOIN clause, every table of a comma-separated list included, is
\* written as [db].[schema].[table].
C2_QualificationComplete ==
    pc # "query" =>
        \A p \in ClauseTargets(out1) \cup ListedTargets(out1) :
            QualifiedAt(out1, p)

\* C3: a two-part reference schema.table (parts optionally bracketed) whose
\* schema is not a SQL type name is rewritten to [db].[schema].[table]: the
\* given schema is kept and the database prepended.
C3_TwoPartKeepsSchema ==
    (/\ pc # "query" /\ IsClause /\ WellBracketed
     /\ Len(qIn.parts) = 2 /\ ~IsSqlType(qIn.parts[1]))
    => RefRewrittenTo(out1, FullName(database, qIn.parts[1], qIn.parts[2]))

\* C4: a three-part reference a.b.t in which neither a nor b is a SQL type
\* name (nor holds a blank, comma or parenthesis) is rewritten to
\* [db].[b].[t], whatever a and db are.
C4_ThreePartKeepsSchema ==
    (/\ pc # "query" /\ IsClause /\ WellBracketed
     /\ Len(qIn.parts) = 3
     /\ ~IsSqlType(qIn.parts[1]) /\ ~IsSqlType(qIn.parts[2]))
    => RefRewrittenTo(out1, FullName(database, qIn.parts[2], qIn.parts[3]))

\* the reference has one or two qualifiers and one of them is a type name
HasTypeQualifier ==
    /\ Len(qIn.parts) \in 2..3
    /\ \E k \in 1..(Len(qIn.parts) - 1) : IsSqlType(qIn.parts[k])

\* C5: when a qualifier of a FROM/JOIN reference is a SQL type name, all
\* qualifiers are discarded and the reference becomes [db].[dbo].[table].
C5_TypeTokenDefense ==
    (pc # "query" /\ IsClause /\ WellBracketed /\ HasTypeQualifier)
    => RefRewrittenTo(out1, FullName(database, <<"dbo">>, Last(qIn.parts)))

\* a three-part reference whose schema is a type name has been normalized
C5_Witness ==
    /\ pc = "normalized" /\ IsClause /\ WellBracketed
    /\ Len(qIn.parts) = 3 /\ IsSqlType(qIn.parts[2]) /\ ~IsSqlType(qIn.parts[1])
    /\ RefRewrittenTo(out1, FullName(database, <<"dbo">>, qIn.parts[3]))

EndsWith(o, x) ==
    Len(o) >= Len(x) /\ SubSeq(o, Len(o) - Len(x) + 1, Len(o)) = x

\* what follows the reference, its own JOIN clause rewritten
NormalizedPost ==
    IF qIn.post = <<" ", "JOIN", " ", "u">>
    THEN <<" ", "JOIN", " ">> \o FullName(database, DefaultSchema, <<"u">>)
    ELSE qIn.post

\* C26: normalization frame: the normalizer changes nothing but the
\* FROM/JOIN table references: the text before the keyword, the keyword
\* in its original letter case and the text after the reference are kept,
\* and a keyword that opens no clause leaves its reference as written.
C26_NormalizationFrame ==
    pc = "normalized"
    => /\ StartsWithAt(out1, 1, qIn.pre \o <<qIn.kw>>)
       /\ EndsWith(out1, NormalizedPost)
       /\ ~IsClause
          => out1 = qIn.pre \o <<qIn.kw>> \o qIn.ws
                    \o WriteRef(qIn.parts, qIn.style) \o NormalizedPost

C26_Witness ==
    /\ pc = "normalized" /\ IsClause
    /\ qIn.pre = <<"u", " ">> /\ qIn.kw = "join"
    /\ qIn.post = <<",", " ", "u">>
    /\ out1 # query

\* C27: derived tables are not table references: a FROM or JOIN followed
\* by an opening parenthesis is left as written: the keyword, the blanks
\* and the parenthesis with the text it opens are kept, and nothing after
\* the keyword is wrapped as a table name.
C27_DerivedTableUnchanged ==
    pc = "normalized"
    => StartsWithAt(out1, 1,
           qIn.pre \o <<qIn.kw>> \o qIn.ws \o <<"(">> \o qIn.gap
               \o <<"SELECT", " ", "1">>)

(***************************************************************************)
(* Properties of the served generation endpoint and of the extractor.      *)
(***************************************************************************)
\* C7: every query the served generation endpoint returns successfully for
\* a request with a non-empty database name has each FROM/JOIN table
\* reference in the form [database].[schema].[table], whatever
\* qualification the model wrote.
C7_ServedQueryFullyQualified ==
    (pc = "responded" /\ genRes.status = 200 /\ Truthy(database))
    => \A p \in ClauseTargets(genRes.query) : QualifiedAt(genRes.query, p)

\* C8: when the text holds two or more fenced SQL blocks (none of them
\* empty), every variant of the extractor returns the content of the last
\* block.
C8_LastBlockWins ==
    (/\ pc = "extracted" /\ Len(rIn.blocks) >= 2
     /\ \A k \in 1..Len(rIn.blocks) : rIn.blocks[k] # <<>>)
    => LET last == Strip(Last(rIn.blocks))
       IN  /\ resApi.query = last
           /\ resQg.query = last
           /\ resLlm.query = last

\* C9: the returned query is taken from outside the think wrapper only:
\* whatever the wrapper holds, the returned query is the same.
C9_ThinkTextNeverReturned ==
    (pc = "extracted" /\ rIn.think # None)
    => \A w \in ThinkContents :
          LET other == WriteResponse([rIn EXCEPT !.think = w])
          IN  /\ api_extract_sql_from_response(other).query = resApi.query
              /\ llm_extract_sql_from_response(other).query = resLlm.query

\* the text ends with the quoted sentence Your SQL Query will be like "..."
HasQuotedSentence == rIn.tail # <<>> /\ Last(rIn.tail) = "\""

QuotedContent == <<"SELECT", " ", "4">>

HasFilledBlock == \E k \in 1..Len(rIn.blocks) : rIn.blocks[k] # <<>>

\* C24 as stated: when the text holds both a fenced SQL block and the
\* quoted sentence, the extractor of query_generation returns the content
\* of a fenced block.
C24_FencedBlockBeforeQuoted ==
    (pc = "extracted" /\ HasQuotedSentence /\ HasFilledBlock)
    => \E k \in 1..Len(rIn.blocks) : resQg.query = Strip(rIn.blocks[k])

\* C24, amended: the quoted sentence is consulted first: when the text
\* holds it, the extractor of query_generation returns the quoted content,
\* a fenced SQL block being present or not; the last fenced block is
\* returned only when the text holds no quoted sentence.
C24_QuotedSentenceFirst ==
    pc = "extracted"
    => /\ HasQuotedSentence
          => resQg = [query |-> QuotedContent, reason |-> None]
       /\ (~HasQuotedSentence /\ rIn.blocks # <<>>
           /\ Last(rIn.blocks) # <<>>)
          => resQg = [query |-> Strip(Last(rIn.blocks)), reason |-> None]

C24_Witness ==
    /\ pc = "extracted" /\ HasQuotedSentence /\ HasFilledBlock
    /\ resQg.query = QuotedContent

\* no fenced SQL block of the text holds a query
NoBlockYieldsQuery ==
    /\ ~HasFilledBlock
    /\ rIn.think = None \/ \A i \in 1..Len(rIn.think) : rIn.think[i] # Fence

\* C25: bare-SELECT fallback: when no fenced block yields a query, the
\* query the extractor of llm_integration returns ends at the first
\* semicolon after the SELECT line: it holds no semicolon and none of the
\* text that follows the semicolon.
C25_BareSelectEndsAtSemicolon ==
    (pc = "extracted" /\ NoBlockYieldsQuery /\ Truthy(resLlm.query))
    => \A i \in 1..Len(resLlm.query) : resLlm.query[i] # ";"

\* the phrases that mark a refusal
IsRefusalPhrase(c) ==
    c \in {"cannot generate", "not related to", "outside the scope"}

ContainsRefusal(s) == \E i \in 1..Len(s) : IsRefusalPhrase(s[i])

\* C10: when the text holds a refusal phrase the extractor returns no
\* query and a non-empty reason, even if the text also holds SELECT or a
\* fenced SQL block.
C10_RefusalShortCircuit ==
    (pc = "extracted" /\ ContainsRefusal(response))
    => /\ resLlm.query = None /\ Truthy(resLlm.reason)
       /\ resApi.query = None

\* C11: extraction failure is a value: whenever a variant of the extractor
\* recovers no query from the text (the empty text included) it returns no
\* query (None) together with a non-empty reason as its second component.
C11_ExtractionFailureIsValue ==
    pc = "extracted"
    => /\ ~Truthy(resLlm.query)
          => (resLlm.query = None /\ Truthy(resLlm.reason))
       /\ ~Truthy(resApi.query)
          => (resApi.query = None /\ Truthy(resApi.think))

\* C12: on every return exactly one of the two holds: a non-empty query
\* with no second component (no error reason), or no query with a
\* non-empty reason.
C12_QueryXorReason ==
    pc = "extracted"
    => /\ (Truthy(resQg.query) /\ resQg.reason = None)
          \/ (resQg.query = None /\ Truthy(resQg.reason))
       /\ (Truthy(resLlm.query) /\ resLlm.reason = None)
          \/ (resLlm.query = None /\ Truthy(resLlm.reason))
       /\ (Truthy(resApi.query) /\ resApi.think = None)
          \/ (resApi.query = None /\ Truthy(resApi.think))

(***************************************************************************)
(* Properties of the refinement.                                           *)
(***************************************************************************)
\* C13: fail-soft refinement: when the model's reply to the corrective
\* prompt is a text holding no extractable SQL, refine_sql_with_feedback
\* returns the query it was given, unchanged, and does not raise.
C13_FailSoftRefinement ==
    (pc = "refined" /\ http.kind \in NoSqlKinds)
    => refined = Returned(query)

C13_Witness ==
    /\ pc = "refined" /\ http.kind = "sqlinthink"
    /\ refined = Returned(query) /\ Truthy(query)

\* C21: refinement never propagates a harder failure: when the model
\* client fails during the refinement (query_ollama yields no response),
\* refine_sql_with_feedback still returns the query it was given and does
\* not raise.
C21_RefinementSurvivesModelFailure ==
    (pc = "refined" /\ ~http.ok)
    => (refined.raised = "" /\ refined.value = query)

\* C22: cycle ordering: a query produced by the refinement has passed
\* through the extractor and then through the table-reference normalizer
\* before it is returned for execution: each of its FROM/JOIN table
\* references has the form [database].[schema].[table].
C22_RefinedQueryNormalized ==
    (pc = "refined" /\ http.kind \in {"sql", "thinksql"})
    => /\ refined.raised = ""
       /\ \A p \in ClauseTargets(refined.value) :
             QualifiedAt(refined.value, p)

(***************************************************************************)
(* Properties of the database endpoints.                                   *)
(***************************************************************************)
RefinementAttempts ==
    {i \in DOMAIN calls : calls[i].fn = "refine_sql_with_feedback"}

\* C14: retry bound: an execution that fails performs exactly MAX_RETRIES
\* (3) refinement attempts before it ends in failure with the last error.
C14_RetryBound ==
    (pc = "served" /\ endpoint = "execute" /\ epRes.status # 200)
    => Cardinality(RefinementAttempts) = MAX_RETRIES

\* C19: no endpoint opens a database connection for a configuration with
\* useWindowsAuth false whose username or password is missing.
C19_CredentialsBeforeConnection ==
    (/\ pc = "served" /\ ~config.useWindowsAuth
     /\ (~Truthy(config.username) \/ ~Truthy(config.password)))
    => \A i \in DOMAIN calls : calls[i].fn # "pyodbc.connect"

\* the execution request is well formed: Windows authentication, or a
\* username and a password
WellFormedExecution ==
    config.useWindowsAuth \/ (Truthy(config.username) /\ Truthy(config.password))

\* C28: for a well-formed execution request whose statement runs and
\* yields n rows, the served execute_query answers 200 with the first
\* min(n, maxRows) rows, each a mapping from column name to value.
C28_ExecutionReturnsCappedRows ==
    (/\ pc = "served" /\ endpoint = "execute"
     /\ server \in {"empty", "answers"} /\ WellFormedExecution)
    => /\ epRes.status = 200
       /\ Len(epRes.body.results)
            = Min(Len(ResultSet(server, rows)), maxRows)
       /\ \A i \in DOMAIN epRes.body.results :
            /\ DOMAIN epRes.body.results[i] = {"id", "name"}
            /\ epRes.body.results[i]["id"] = rows[i][1]
            /\ epRes.body.results[i]["name"] = rows[i][2]

CallIndexes(fn) == {i \in DOMAIN calls : calls[i].fn = fn}

\* the connections pyodbc.connect handed out: none when the server refuses
OpenedConnections ==
    IF server = "refuses" THEN {} ELSE CallIndexes("pyodbc.connect")

\* C29: execute_query and execute_sql_query close every cursor and every
\* connection they opened, after their last use and before they return or
\* raise, whether the call succeeds or fails at connect, execute or fetch;
\* they close nothing that was never opened.
C29_ConnectionsReleased ==
    (pc = "served" /\ endpoint \in {"execute", "execute_sql_query"})
    => /\ Cardinality(CallIndexes("cnxn.close"))
            = Cardinality(OpenedConnections)
       /\ Cardinality(CallIndexes("cursor.close"))
            = Cardinality(OpenedConnections)
       /\ \A i \in CallIndexes("cnxn.close") \cup CallIndexes("cursor.close") :
            \A j \in DOMAIN calls :
                calls[j].fn \notin {"cnxn.close", "cursor.close"} => j < i

C29_Witness ==
    /\ pc = "served" /\ endpoint = "execute_sql_query"
    /\ server = "fetchfails"
    /\ epRes.raised = "pyodbc.Error"
    /\ CallIndexes("cnxn.close") # {}

(***************************************************************************)
(* Properties of generate_query.                                           *)
(***************************************************************************)
CallsOf(fn) == {i \in DOMAIN genCalls : genCalls[i] = fn}

\* C15: generate_query calls the model client exactly once per request,
\* and when the client fails or returns an empty or absent response the
\* request ends in failure: no extraction, no normalization, no query.
C15_ModelFailureEndsRequest ==
    pc = "responded"
    => /\ Cardinality(CallsOf("query_ollama")) = 1
       /\ ~Truthy(reply)
          => /\ genRes.status # 200 /\ genRes.query = None
             /\ CallsOf("extract_sql_from_response") = {}
             /\ CallsOf("formatQueryWithDatabasePrefix") = {}

C15_Witness ==
    /\ pc = "responded" /\ reply = <<>>
    /\ genRes.status = 500 /\ genCalls = <<"isNonSqlResponse", "query_ollama">>

\* C23: extraction failure is a client error: when the model replies with
\* a text from which no query is recovered, generate_query answers with
\* status 400, and it has called the model once.
C23_ExtractionFailureIs400 ==
    (/\ pc = "responded" /\ Truthy(reply)
     /\ ~Truthy(api_extract_sql_from_response(reply).query))
    => /\ genRes.status = 400
       /\ genRes.detail = "No SQL query found in the model's response."
       /\ Cardinality(CallsOf("query_ollama")) = 1

\* C20: a request whose database name is missing or empty is rejected:
\* generate_query never returns a query successfully for it, so no query
\* with unqualified references is served because the name was empty.
C20_EmptyDatabaseRejected ==
    (pc = "qg-responded" /\ ~Truthy(database))
    => qgenRes.status # 200

(***************************************************************************)
(* Properties of the served application.                                   *)
(***************************************************************************)
\* C17: requests do not stall each other: while one request waits for the
\* model service, the event loop is free to run the handler of another
\* request that is ready.
C17_RequestsDoNotStall ==
    \A a \in Requests, b \in Requests :
        (pc = "serving" /\ reqs[a].at = "posting" /\ reqs[b].at = "queued")
        => loop = Idle

\* C18: every generation request the server has accepted is eventually
\* answered, also when the model service never answers.
C18_GenerationTerminates ==
    \A r \in Requests :
        (pc = "serving" /\ reqs[r].kind = "generate"
         /\ reqs[r].at = "queued")
        ~> (reqs[r].at = "done")

(***************************************************************************)
(* Properties of the join example.                                         *)
(***************************************************************************)
NamesOf(t) == {t.columns[i].name : i \in DOMAIN t.columns}

PrimaryKeysOf(t) ==
    {t.columns[i].name :
        i \in {k \in DOMAIN t.columns : t.columns[k].isPrimaryKey}}

IdColumnsOf(t) == {n \in NamesOf(t) : LooksLikeId(n)}

HaveCommonColumn ==
    \E a \in NamesOf(tables[1]), b \in NamesOf(tables[2]) : lower(a) = lower(b)

\* C30: the join columns follow the priority order: a column name common
\* to both tables (in any case); else a primary-key column on each side;
\* else a column whose name contains id or key; else the first column of
\* each table.  Stated where the order leaves no choice: both sides have
\* what the rule looks for, and no higher rule finds anything on any side.
C30_JoinColumnPriority ==
    pc = "examples" =>
        IF HaveCommonColumn
        THEN /\ joins.col1 \in NamesOf(tables[1])
             /\ joins.col2 \in NamesOf(tables[2])
             /\ lower(joins.col1) = lower(joins.col2)
        ELSE IF PrimaryKeysOf(tables[1]) # {} /\ PrimaryKeysOf(tables[2]) # {}
        THEN /\ joins.col1 \in PrimaryKeysOf(tables[1])
             /\ joins.col2 \in PrimaryKeysOf(tables[2])
        ELSE IF PrimaryKeysOf(tables[1]) \cup PrimaryKeysOf(tables[2]) # {}
        THEN TRUE
        ELSE IF IdColumnsOf(tables[1]) # {} /\ IdColumnsOf(tables[2]) # {}
        THEN /\ joins.col1 \in IdColumnsOf(tables[1])
             /\ joins.col2 \in IdColumnsOf(tables[2])
        ELSE IF IdColumnsOf(tables[1]) \cup IdColumnsOf(tables[2]) # {}
        THEN TRUE
        ELSE /\ joins.col1 = tables[1].columns[1].name
             /\ joins.col2 = tables[2].columns[1].name

====
